---- MODULE Spec2Model ----
(***************************************************************************)
(* SentinelPay: the sanitization-and-risk pipeline (src/main.py), the      *)
(* DataSanitizer in both modes (src/agents/data_sanitizer.py), the reply   *)
(* handling of OllamaClient (src/utils/ollama_client.py) and the           *)
(* RiskAnalyzer (src/agents/risk_analyzer.py).                             *)
(*                                                                         *)
(* Eight specifications share this module:                                 *)
(*   Spec           one call of run_pipeline, collaborator answers drawn   *)
(*                  at each call;                                          *)
(*   SpecBatch      two calls of run_pipeline on one batch, with and       *)
(*                  without a transaction that fails sanitization, step    *)
(*                  by step on the same answers;                           *)
(*   SpecPair       two calls of run_pipeline with different batch sizes,  *)
(*                  one after the other, that get the same collaborator    *)
(*                  answers for the same questions;                        *)
(*   SpecScore      a RiskAnalyzer on its own, fed transactions with real  *)
(*                  datetime timestamps;                                   *)
(*   SpecLlm        a RiskAnalyzer asked for assisted assessments;         *)
(*   SpecSanitizer  DataSanitizer objects, their construction, their       *)
(*                  sanitize_transaction and the violation log file;       *)
(*   SpecPattern    mask_pan, get_card_type and _sanitize_with_regex       *)
(*                  applied to texts;                                      *)
(*   SpecReport     generate_daily_summary of ComplianceReporter           *)
(*                  (src/agents/compliance_reporter.py) on the             *)
(*                  transactions and the violations run_pipeline hands it. *)
(***************************************************************************)
EXTENDS Integers, Sequences, FiniteSets, TLC

VARIABLES run, run2, sanAns, riskAns, transaction_history, last,
          data_sanitizer, violation_log_file

vars == <<run, run2, sanAns, riskAns, transaction_history, last,
          data_sanitizer, violation_log_file>>

(***************************************************************************)
(* Bounds of the model.                                                    *)
(***************************************************************************)
\* raw transactions handed to run_pipeline in Spec
NumTx == 3
\* raw transactions handed to the two runs of SpecPair
PairTx == 2
\* violations in one collaborator answer
MaxViol == 1
\* entries the history store of SpecScore may hold
MaxHist == 3
\* records the violation log file of SpecSanitizer holds before a call
MaxLedger == 2
\* digits of the longest digit run in the inputs of SpecPattern
MaxDigits == 20

(***************************************************************************)
(* Program constants.                                                      *)
(***************************************************************************)
BATCH_SIZE == 100

risk_rules ==
  [high_transaction_value |-> [threshold |-> 1000, score |-> 3],
   multiple_transactions_short_period |-> [period |-> 5, count |-> 3, score |-> 4],
   unusual_country |-> [banned_countries |-> {"US", "AU"}, score |-> 5]]

\* the table with the scores of Medium and High exchanged
risk_score_mapping_Swapped == [Low |-> 1, Medium |-> 10, High |-> 5]

risk_score_mapping == [Low |-> 1, Medium |-> 5, High |-> 10]

(***************************************************************************)
(* Values.  Python's None is the token "None"; a timestamp is a record     *)
(* that keeps its Python type: kind "dt" is a datetime (at = minutes),     *)
(* kind "str" is the ISO string run_pipeline stores.                       *)
(***************************************************************************)
None == "None"

Truthy(s) == s \notin {"", None}

Min(a, b) == IF a < b THEN a ELSE b

\* the source's batch size, and two that put a batch boundary inside the run
BatchSizes == {1, 2, BATCH_SIZE}

\* the text a collaborator answer for raw transaction k can carry as
\* "sanitized_log": the masked form of that log, an empty string, or nothing
MaskedLog(k) == "masked_" \o ToString(k)

SanitizedLogs(k) == {MaskedLog(k), "", None}

\* the j-th violation the collaborator reports for raw transaction k
\* (k = 0: a record left in the ledger file by an earlier run)
Violation(k, j) == [transaction_id |-> "N/A", src |-> k, n |-> j]

ViolationList(k, c) == [j \in 1..c |-> Violation(k, j)]

(***************************************************************************)
(* RiskAnalyzer (src/agents/risk_analyzer.py).                             *)
(* transaction_history is a dict: a function whose domain is the set of    *)
(* cardholders registered so far.  An operation that can raise returns a   *)
(* record with a field "raised".                                           *)
(***************************************************************************)
\* datetime - datetime is a timedelta; any other pair of operand types
\* (str - str, datetime - str, str - datetime) raises TypeError
CanSubtract(a, b) == a.kind = "dt" /\ b.kind = "dt"

\* self.transaction_history.get(cardholder, [])
HistoryOf(history, cardholder) ==
  IF cardholder \in DOMAIN history THEN history[cardholder] ELSE <<>>

_update_transaction_history(history, transaction) ==
  LET cardholder == transaction.cardholder
      h0 == IF cardholder \notin DOMAIN history
              THEN history @@ (cardholder :> <<>>)
              ELSE history
  IN  [h0 EXCEPT ![cardholder] = Append(@, transaction)]

\* the list comprehension evaluates now - t['timestamp'] for every entry of
\* the cardholder's list, so one bad pair of operands raises
_check_multiple_transactions(history, transaction) ==
  LET cardholder == transaction.cardholder
      now    == transaction.timestamp
      period == risk_rules.multiple_transactions_short_period.period
      count  == risk_rules.multiple_transactions_short_period.count
      list   == history[cardholder]
      recent_transactions ==
        {n \in 1..Len(list) : now.at - list[n].timestamp.at <= period}
  IN  IF \E n \in 1..Len(list) : ~CanSubtract(now, list[n].timestamp)
        THEN [raised |-> TRUE, value |-> FALSE]
        ELSE [raised |-> FALSE, value |-> Cardinality(recent_transactions) >= count]

\* calculate_risk_score with the threshold test written >=
calculate_risk_score_Inclusive(history, transaction) ==
  LET s1 == IF transaction.amount >= risk_rules.high_transaction_value.threshold
              THEN risk_rules.high_transaction_value.score ELSE 0
      h1 == _update_transaction_history(history, transaction)
      chk == _check_multiple_transactions(h1, transaction)
      s2 == IF chk.value
              THEN s1 + risk_rules.multiple_transactions_short_period.score ELSE s1
      s3 == IF transaction.country \notin risk_rules.unusual_country.banned_countries
              THEN s2 + risk_rules.unusual_country.score ELSE s2
  IN  IF chk.raised
        THEN [raised |-> TRUE, score |-> 0, history |-> h1]
        ELSE [raised |-> FALSE, score |-> s3, history |-> h1]

\* calculate_risk_score that takes the burst count before it registers the
\* transaction
calculate_risk_score_CountFirst(history, transaction) ==
  LET s1 == IF transaction.amount > risk_rules.high_transaction_value.threshold
              THEN risk_rules.high_transaction_value.score ELSE 0
      h0 == IF transaction.cardholder \in DOMAIN history
              THEN history
              ELSE history @@ (transaction.cardholder :> <<>>)
      chk == _check_multiple_transactions(h0, transaction)
      h1 == _update_transaction_history(history, transaction)
      s2 == IF chk.value
              THEN s1 + risk_rules.multiple_transactions_short_period.score ELSE s1
      s3 == IF transaction.country \notin risk_rules.unusual_country.banned_countries
              THEN s2 + risk_rules.unusual_country.score ELSE s2
  IN  IF chk.raised
        THEN [raised |-> TRUE, score |-> 0, history |-> h1]
        ELSE [raised |-> FALSE, score |-> s3, history |-> h1]

\* returns [raised, score, history]: the history is updated before the
\* check that can raise, so it is changed on both exits
calculate_risk_score(history, transaction) ==
  LET s1 == IF transaction.amount > risk_rules.high_transaction_value.threshold
              THEN risk_rules.high_transaction_value.score ELSE 0
      h1 == _update_transaction_history(history, transaction)
      chk == _check_multiple_transactions(h1, transaction)
      s2 == IF chk.value
              THEN s1 + risk_rules.multiple_transactions_short_period.score ELSE s1
      s3 == IF transaction.country \notin risk_rules.unusual_country.banned_countries
              THEN s2 + risk_rules.unusual_country.score ELSE s2
  IN  IF chk.raised
        THEN [raised |-> TRUE, score |-> 0, history |-> h1]
        ELSE [raised |-> FALSE, score |-> s3, history |-> h1]

\* what the collaborator's analyze_risk can give back for one question:
\* an assessment carrying one of these labels, nothing ("null"), or an
\* error that leaves analyze_risk_with_llm as an exception ("raise")
RiskLevels == {"Low", "Medium", "High", "Other"}

RiskOutcomes == RiskLevels \cup {"null", "raise"}

\* analyze_risk_with_llm that hands only the cardholder's latest entry to
\* the collaborator
analyze_risk_with_llm_LastOnly(ollama_client, history, transaction, answer) ==
  LET cardholder == transaction.cardholder
      list == HistoryOf(history, cardholder)
      asked == <<[transaction |-> transaction,
                  history |-> IF list = <<>> THEN <<>> ELSE <<list[Len(list)]>>]>>
  IN  IF ~ollama_client
        THEN [raised |-> TRUE, value |-> "null", asked |-> <<>>]
        ELSE IF answer = "raise"
          THEN [raised |-> TRUE, value |-> "null", asked |-> asked]
          ELSE [raised |-> FALSE, value |-> answer, asked |-> asked]

\* returns [raised, value, asked]; value is the collaborator's answer as it
\* came, asked the calls made to the collaborator's analyze_risk, each with
\* its two arguments
analyze_risk_with_llm(ollama_client, history, transaction, answer) ==
  LET cardholder == transaction.cardholder
      asked == <<[transaction |-> transaction,
                  history |-> HistoryOf(history, cardholder)]>>
  IN  IF ~ollama_client
        THEN [raised |-> TRUE, value |-> "null", asked |-> <<>>]
        ELSE IF answer = "raise"
          THEN [raised |-> TRUE, value |-> "null", asked |-> asked]
          ELSE [raised |-> FALSE, value |-> answer, asked |-> asked]

(***************************************************************************)
(* DataSanitizer in 'ollama' mode (src/agents/data_sanitizer.py) and the   *)
(* violation log file it appends to.  The file is [exists, lines].         *)
(***************************************************************************)
\* no violation log file in the output directory
NoFile == [exists |-> FALSE, lines |-> <<>>]

\* the name data_sanitizer before an object is bound to it
NoSanitizer == [exists |-> FALSE, mode |-> "", ollama_client |-> FALSE]

Modes == {"regex", "ollama"}

\* DataSanitizer.__init__ without the test of the collaborator
DataSanitizer_Unchecked(mode, ollama_client) ==
  [raised |-> FALSE,
   self |-> [exists |-> TRUE, mode |-> mode, ollama_client |-> ollama_client]]

\* DataSanitizer(mode=..., ollama_client=...): returns [raised, self];
\* ollama_client is TRUE for a client object and FALSE for None
DataSanitizer(mode, ollama_client) ==
  IF mode = "ollama" /\ ~ollama_client
    THEN [raised |-> TRUE, self |-> NoSanitizer]
    ELSE [raised |-> FALSE,
          self |-> [exists |-> TRUE, mode |-> mode, ollama_client |-> ollama_client]]

\* OllamaClient.process_transaction returns None on any error, else a dict
\* with the keys "sanitized_log" and "violations"
NullResponse == [null |-> TRUE, sanitized_log |-> None, violations |-> <<>>]

Responses(k) ==
  {NullResponse} \cup
  {[null |-> FALSE, sanitized_log |-> s, violations |-> ViolationList(k, c)] :
     s \in SanitizedLogs(k), c \in 0..MaxViol}

\* how the append to the file ends: all records written, open() fails, or a
\* write fails after `written` records
IOOutcomes(violations) ==
  {[kind |-> "ok", written |-> Len(violations)],
   [kind |-> "open_fails", written |-> 0]} \cup
  {[kind |-> "write_fails", written |-> j] : j \in 0..(Len(violations) - 1)}

\* _log_violations that opens the file with mode 'w'
_log_violations_Overwrite(violation_log, violations, io) ==
  IF io.kind = "open_fails"
    THEN [raised |-> TRUE, violation_log |-> violation_log]
    ELSE [raised |-> io.kind # "ok",
          violation_log |->
            [exists |-> TRUE, lines |-> SubSeq(violations, 1, io.written)]]

\* returns [raised, violation_log]
_log_violations(violation_log, violations, io) ==
  IF io.kind = "open_fails"
    THEN [raised |-> TRUE, violation_log |-> violation_log]
    ELSE [raised |-> io.kind # "ok",
          violation_log |->
            [exists |-> TRUE,
             lines |-> violation_log.lines \o SubSeq(violations, 1, io.written)]]

\* returns [raised, value, violation_log]
sanitize_transaction(violation_log, structured_response, io) ==
  IF ~structured_response.null
    THEN LET sanitized_log == structured_response.sanitized_log
             violations == structured_response.violations
             logged == _log_violations(violation_log, violations, io)
         IN  IF violations # <<>>
               THEN IF logged.raised
                      THEN [raised |-> TRUE, value |-> None,
                            violation_log |-> logged.violation_log]
                      ELSE [raised |-> FALSE, value |-> sanitized_log,
                            violation_log |-> logged.violation_log]
               ELSE [raised |-> FALSE, value |-> sanitized_log,
                     violation_log |-> violation_log]
    ELSE [raised |-> FALSE, value |-> None, violation_log |-> violation_log]

(***************************************************************************)
(* OllamaClient.process_transaction (src/utils/ollama_client.py).  What    *)
(* ollama.chat gives is one of:                                            *)
(*   error     the call raises, or the reply has no message content;       *)
(*   fenced    the content has ``` blocks: the first is taken as the       *)
(*             sanitized log, the second is parsed as the violations (an   *)
(*             absent or unparseable second block gives the empty list);   *)
(*   json      the content holds a JSON object that parses;                *)
(*   bad_json  the content has braces around something that is not JSON;   *)
(*   text      the content has no JSON object at all.                      *)
(***************************************************************************)
ChatOutcomes(sanitized_logs, violation_lists) ==
  {[kind |-> k, sanitized_log |-> "", violations |-> <<>>] :
     k \in {"error", "bad_json", "text"}} \cup
  {[kind |-> "fenced", sanitized_log |-> s, violations |-> v] :
     s \in sanitized_logs \ {None}, v \in violation_lists} \cup
  {[kind |-> "json", sanitized_log |-> s, violations |-> v] :
     s \in sanitized_logs, v \in violation_lists}

\* sanitized_log = "" and violations = [] are set before the parsing and
\* stay when a JSONDecodeError is passed over
process_transaction(chat) ==
  IF chat.kind = "error"
    THEN NullResponse
    ELSE IF chat.kind \in {"fenced", "json"}
      THEN [null |-> FALSE, sanitized_log |-> chat.sanitized_log,
            violations |-> chat.violations]
      ELSE [null |-> FALSE, sanitized_log |-> "", violations |-> <<>>]

(***************************************************************************)
(* The card classifier and the regex mode of DataSanitizer.  A text is a   *)
(* sequence of one-character strings.                                      *)
(***************************************************************************)
Digits == {"0", "1", "2", "3", "4", "5", "6", "7", "8", "9"}

IsDigit(c) == c \in Digits

\* the characters [ -] of pan_regex
IsSeparator(c) == c \in {" ", "-"}

\* \w of the characters used here: digits and the letter x
IsWord(c) == c \in Digits \cup {"x", "_"}

\* "".join(filter(str.isdigit, pan))
OnlyDigits(pan) == SelectSeq(pan, IsDigit)

Stars(n) == [i \in 1..n |-> "*"]

HasPrefix(d, p) == Len(d) >= Len(p) /\ SubSeq(d, 1, Len(p)) = p

\* mask_pan that keeps the first four digits only
mask_pan_FirstFour(pan) ==
  LET pan_digits == OnlyDigits(pan)
      n == Len(pan_digits)
  IN  IF 13 <= n /\ n <= 19
        THEN SubSeq(pan_digits, 1, 4) \o Stars(n - 8) \o SubSeq(pan_digits, n - 3, n)
        ELSE pan

mask_pan(pan) ==
  LET pan_digits == OnlyDigits(pan)
      n == Len(pan_digits)
  IN  IF 13 <= n /\ n <= 19
        THEN SubSeq(pan_digits, 1, 6) \o Stars(n - 10) \o SubSeq(pan_digits, n - 3, n)
        ELSE pan

\* get_card_type with a JCB pattern of 15 digits for every prefix
get_card_type_Jcb15(pan) ==
  LET d == OnlyDigits(pan)
      n == Len(d)
  IN  IF HasPrefix(d, <<"4">>) /\ n \in {13, 16}
        THEN "Visa"
      ELSE IF n = 16 /\ \E c \in {"1", "2", "3", "4", "5"} : HasPrefix(d, <<"5", c>>)
        THEN "Mastercard"
      ELSE IF n = 15 /\ (HasPrefix(d, <<"3", "4">>) \/ HasPrefix(d, <<"3", "7">>))
        THEN "Amex"
      ELSE IF n = 16 /\ (HasPrefix(d, <<"6", "0", "1", "1">>) \/ HasPrefix(d, <<"6", "5">>))
        THEN "Discover"
      ELSE IF n = 15 /\ (\/ HasPrefix(d, <<"2", "1", "3", "1">>)
                         \/ HasPrefix(d, <<"1", "8", "0", "0">>)
                         \/ HasPrefix(d, <<"3", "5">>))
        THEN "JCB"
      ELSE "Unknown"

\* card_patterns, tried in the order of the dict
get_card_type(pan) ==
  LET d == OnlyDigits(pan)
      n == Len(d)
  IN  IF HasPrefix(d, <<"4">>) /\ n \in {13, 16}
        THEN "Visa"
      ELSE IF n = 16 /\ \E c \in {"1", "2", "3", "4", "5"} : HasPrefix(d, <<"5", c>>)
        THEN "Mastercard"
      ELSE IF n = 15 /\ (HasPrefix(d, <<"3", "4">>) \/ HasPrefix(d, <<"3", "7">>))
        THEN "Amex"
      ELSE IF n = 16 /\ (HasPrefix(d, <<"6", "0", "1", "1">>) \/ HasPrefix(d, <<"6", "5">>))
        THEN "Discover"
      ELSE IF \/ n = 15 /\ (\/ HasPrefix(d, <<"2", "1", "3", "1">>)
                            \/ HasPrefix(d, <<"1", "8", "0", "0">>))
              \/ n = 16 /\ HasPrefix(d, <<"3", "5">>)
        THEN "JCB"
      ELSE "Unknown"

\* \b at the position before text[pos]
WordBoundary(text, pos) ==
  LET before == pos - 1 \in 1..Len(text) /\ IsWord(text[pos - 1])
      after  == pos \in 1..Len(text) /\ IsWord(text[pos])
  IN  before # after

\* (?:\d[ -]*?){13,19}\b from position pos with count repetitions done, as
\* the backtracking matcher tries it: another repetition first (a digit,
\* then as few separators as possible), the word boundary when no further
\* repetition leads to a match.  Gives the position after the match, 0 when
\* there is none.
RECURSIVE MatchRepetitions(_, _, _), MatchSeparators(_, _, _)
MatchRepetitions(text, pos, count) ==
  LET end == IF count >= 13 /\ WordBoundary(text, pos) THEN pos ELSE 0
      more == IF count < 19 /\ pos <= Len(text) /\ IsDigit(text[pos])
                THEN MatchSeparators(text, pos + 1, count + 1)
                ELSE 0
  IN  IF more # 0 THEN more ELSE end

MatchSeparators(text, pos, count) ==
  LET now == MatchRepetitions(text, pos, count)
  IN  IF now # 0
        THEN now
        ELSE IF pos <= Len(text) /\ IsSeparator(text[pos])
          THEN MatchSeparators(text, pos + 1, count)
          ELSE 0

\* the match of pan_regex that starts at position pos: 0, or the position
\* after it
MatchAt(text, pos) ==
  IF WordBoundary(text, pos) THEN MatchRepetitions(text, pos, 0) ELSE 0

\* self.pan_regex.findall(transaction_log): the matches from left to right,
\* the search going on after each match
RECURSIVE FindAllFrom(_, _)
FindAllFrom(text, pos) ==
  IF pos > Len(text)
    THEN <<>>
    ELSE LET end == MatchAt(text, pos)
         IN  IF end # 0
               THEN <<SubSeq(text, pos, end - 1)>> \o FindAllFrom(text, end)
               ELSE FindAllFrom(text, pos + 1)

pan_regex_findall(text) == FindAllFrom(text, 1)

\* str.replace(old, new): every occurrence, from left to right
RECURSIVE Replace(_, _, _)
Replace(s, old, new) ==
  IF Len(s) < Len(old)
    THEN s
    ELSE IF SubSeq(s, 1, Len(old)) = old
      THEN new \o Replace(SubSeq(s, Len(old) + 1, Len(s)), old, new)
      ELSE <<s[1]>> \o Replace(Tail(s), old, new)

\* the body of the loop over pans_found
RECURSIVE MaskFound(_, _, _)
MaskFound(sanitized_log, pans_found, n) ==
  IF n > Len(pans_found)
    THEN sanitized_log
    ELSE LET pan == pans_found[n]
             cleaned_pan == OnlyDigits(pan)
             card_type == get_card_type(cleaned_pan)
             masked_pan == mask_pan(cleaned_pan)
         IN  IF ~(13 <= Len(cleaned_pan) /\ Len(cleaned_pan) <= 19)
               THEN MaskFound(sanitized_log, pans_found, n + 1)
               ELSE IF card_type = "Unknown"
                 THEN MaskFound(sanitized_log, pans_found, n + 1)
                 ELSE MaskFound(Replace(sanitized_log, pan, masked_pan),
                                pans_found, n + 1)

_sanitize_with_regex(transaction_log) ==
  MaskFound(transaction_log, pan_regex_findall(transaction_log), 1)

\* DataSanitizer.sanitize_transaction that also logs a violation for every
\* match of pan_regex when it is in regex mode
DataSanitizer_sanitize_transaction_Logging(self, violation_log, transaction_log, chat, io) ==
  IF self.mode = "ollama"
    THEN LET structured_response == process_transaction(chat)
             res == sanitize_transaction(violation_log, structured_response, io)
         IN  [raised |-> res.raised, value |-> res.value,
              violation_log |-> res.violation_log,
              asked |-> <<transaction_log>>]
    ELSE [raised |-> FALSE, value |-> _sanitize_with_regex(transaction_log),
          violation_log |->
            [exists |-> TRUE,
             lines |-> violation_log.lines \o
                         [n \in 1..Len(pan_regex_findall(transaction_log)) |->
                            [transaction_id |-> "N/A",
                             violation_type |-> "Full PAN stored",
                             confidence_score |-> 100]]],
          asked |-> <<>>]

\* DataSanitizer.sanitize_transaction in either mode: returns [raised,
\* value, violation_log, asked]; asked is the list of logs handed to the
\* collaborator's process_transaction
DataSanitizer_sanitize_transaction(self, violation_log, transaction_log, chat, io) ==
  IF self.mode = "ollama"
    THEN LET structured_response == process_transaction(chat)
             res == sanitize_transaction(violation_log, structured_response, io)
         IN  [raised |-> res.raised, value |-> res.value,
              violation_log |-> res.violation_log,
              asked |-> <<transaction_log>>]
    ELSE [raised |-> FALSE, value |-> _sanitize_with_regex(transaction_log),
          violation_log |-> violation_log,
          asked |-> <<>>]

(***************************************************************************)
(* run_pipeline (src/main.py).  One call is a record of its locals, the    *)
(* violation log file of its output_dir and its RiskAnalyzer's history.    *)
(* Lists are indexed from 1: idx is the position of the next element of    *)
(* the inner loop, i the offset of the current batch.                      *)
(* Kept for the properties only: stage (where each raw transaction is in   *)
(* Ingested -> Sanitized -> Scored -> Reported / Failed), calls (how often *)
(* sanitize_transaction was called for it) and raised (the raw             *)
(* transactions whose sanitization ended in the except clause).            *)
(***************************************************************************)
Ids(raw_transactions) == {raw_transactions[n] : n \in 1..Len(raw_transactions)}

InitRun(raw_transactions, batch_size, violation_log) ==
  [raw_transactions |-> raw_transactions,
   BATCH_SIZE |-> batch_size,
   pc |-> "batch",
   i |-> 0,
   idx |-> 1,
   batch |-> <<>>,
   sanitized_batch |-> <<>>,
   all_sanitized_transactions |-> <<>>,
   all_violations |-> <<>>,
   violation_log |-> violation_log,
   transaction_history |-> <<>>,
   error |-> "",
   stage |-> [k \in Ids(raw_transactions) |-> "Ingested"],
   calls |-> [k \in Ids(raw_transactions) |-> 0],
   raised |-> {}]

\* the violation log file before the run: absent, or left by an earlier run
InitialLogs ==
  {[exists |-> FALSE, lines |-> <<>>],
   [exists |-> TRUE, lines |-> <<Violation(0, 1)>>]}

\* for i in range(0, len(raw_transactions), BATCH_SIZE): batch = ...
TakeBatch(r) ==
  [r EXCEPT !.batch = SubSeq(r.raw_transactions, r.i + 1,
                             Min(r.i + r.BATCH_SIZE, Len(r.raw_transactions))),
            !.sanitized_batch = <<>>,
            !.idx = 1,
            !.pc = "sanitize"]

\* the identifier taken from the position in raw_transactions
NewTransactionId_ByPosition(r) == r.i + r.idx

\* the identifier counted within the batch only
NewTransactionId_InBatch(r) == Len(r.sanitized_batch) + 1

\* the dict built for a sanitized transaction; "txn_n" is kept as n
NewTransactionId(r) ==
  Len(r.all_sanitized_transactions) + Len(r.sanitized_batch) + 1

SanitizedTx(r, tx_log, sanitized_log) ==
  [transaction_id |-> NewTransactionId(r),
   original_log |-> tx_log,
   sanitized_log |-> sanitized_log,
   timestamp |-> [kind |-> "str", at |-> 0],
   amount |-> 0,
   cardholder |-> "Unknown",
   country |-> "Unknown"]

\* SanitizeStep without the except clause: an exception of
\* sanitize_transaction leaves run_pipeline
SanitizeStep_Propagate(r, structured_response, io) ==
  LET tx_log == r.batch[r.idx]
      res == sanitize_transaction(r.violation_log, structured_response, io)
      ok == ~res.raised /\ Truthy(res.value)
  IN  IF res.raised
        THEN [r EXCEPT !.violation_log = res.violation_log,
                       !.raised = @ \cup {tx_log},
                       !.calls[tx_log] = @ + 1,
                       !.error = "OSError",
                       !.pc = "aborted"]
        ELSE [r EXCEPT !.violation_log = res.violation_log,
                       !.sanitized_batch =
                          IF ok THEN Append(@, SanitizedTx(r, tx_log, res.value)) ELSE @,
                       !.idx = @ + 1,
                       !.stage[tx_log] = IF ok THEN "Sanitized" ELSE "Failed",
                       !.calls[tx_log] = @ + 1]

\* one iteration of the sanitization loop, its try/except included
SanitizeStep(r, structured_response, io) ==
  LET tx_log == r.batch[r.idx]
      res == sanitize_transaction(r.violation_log, structured_response, io)
      ok == ~res.raised /\ Truthy(res.value)
  IN  [r EXCEPT !.violation_log = res.violation_log,
                !.sanitized_batch =
                   IF ok THEN Append(@, SanitizedTx(r, tx_log, res.value)) ELSE @,
                !.idx = @ + 1,
                !.stage[tx_log] = IF ok THEN "Sanitized" ELSE "Failed",
                !.calls[tx_log] = @ + 1,
                !.raised = IF res.raised THEN @ \cup {tx_log} ELSE @]

\* all_sanitized_transactions.extend(sanitized_batch)
ExtendStep(r) ==
  [r EXCEPT !.all_sanitized_transactions = @ \o r.sanitized_batch,
            !.idx = 1,
            !.pc = "analyze"]

\* the element of all_sanitized_transactions that is the same dict as
\* sanitized_batch[idx]
PositionInAll(r) ==
  Len(r.all_sanitized_transactions) - Len(r.sanitized_batch) + r.idx

\* tx['risk_score'] = ...; tx['risk_reasoning'] = ...
WithRisk(tx, risk_score, risk_reasoning) ==
  [risk_score |-> risk_score, risk_reasoning |-> risk_reasoning] @@ tx

Scored(r, risk_score, risk_reasoning, history) ==
  LET tx == r.sanitized_batch[r.idx]
  IN  [r EXCEPT !.all_sanitized_transactions[PositionInAll(r)] =
                   WithRisk(tx, risk_score, risk_reasoning),
                !.transaction_history = history,
                !.idx = @ + 1,
                !.stage[tx.original_log] = "Scored"]

\* the except clause of the risk loop: a second calculate_risk_score, whose
\* own exception leaves run_pipeline
RiskExceptClause(r, history) ==
  LET tx == r.sanitized_batch[r.idx]
      c == calculate_risk_score(history, tx)
  IN  IF c.raised
        THEN [r EXCEPT !.transaction_history = c.history,
                       !.error = "TypeError",
                       !.pc = "aborted"]
        ELSE Scored(r, c.score, "Rule-based fallback due to error", c.history)

\* one iteration of the risk loop, its try/except included
AnalyzeStep(r, answer) ==
  LET tx == r.sanitized_batch[r.idx]
      a == analyze_risk_with_llm(TRUE, r.transaction_history, tx, answer)
      c == calculate_risk_score(r.transaction_history, tx)
  IN  IF a.raised
        THEN RiskExceptClause(r, r.transaction_history)
        ELSE IF a.value # "null"
          THEN Scored(r,
                      IF a.value \in DOMAIN risk_score_mapping
                        THEN risk_score_mapping[a.value] ELSE 1,
                      "llm reasoning", r.transaction_history)
          ELSE IF c.raised
            THEN RiskExceptClause(r, c.history)
            ELSE Scored(r, c.score, "Rule-based fallback", c.history)

\* end of the body of the batch loop
EndBatchStep(r) ==
  [r EXCEPT !.i = @ + r.BATCH_SIZE, !.pc = "batch"]

\* LoadStep that keeps the violations of this run's own transactions only
LoadStep_OwnOnly(r, read_ok) ==
  LET Own(v) == v.src # 0
  IN  IF ~r.violation_log.exists
        THEN [r EXCEPT !.pc = "report"]
        ELSE IF read_ok
          THEN [r EXCEPT !.all_violations = SelectSeq(r.violation_log.lines, Own),
                         !.pc = "report"]
          ELSE [r EXCEPT !.error = "OSError", !.pc = "aborted"]

\* after the loop: the whole file is read when it exists
LoadStep(r, read_ok) ==
  IF ~r.violation_log.exists
    THEN [r EXCEPT !.pc = "report"]
    ELSE IF read_ok
      THEN [r EXCEPT !.all_violations = r.violation_log.lines, !.pc = "report"]
      ELSE [r EXCEPT !.error = "OSError", !.pc = "aborted"]

\* stage 3 and the return statement
ReportStep(r) ==
  [r EXCEPT !.pc = "done",
            !.stage = [k \in DOMAIN r.stage |->
                         IF /\ r.stage[k] = "Scored"
                            /\ \E n \in 1..Len(r.all_sanitized_transactions) :
                                 r.all_sanitized_transactions[n].original_log = k
                           THEN "Reported" ELSE r.stage[k]]]

Terminated(r) == r.pc \in {"done", "aborted"}

(***************************************************************************)
(* Spec: one call of run_pipeline.                                         *)
(***************************************************************************)
Idle == InitRun(<<>>, BATCH_SIZE, [exists |-> FALSE, lines |-> <<>>])

Init ==
  /\ \E n \in 0..NumTx, batch_size \in BatchSizes, violation_log \in InitialLogs :
       run = InitRun([k \in 1..n |-> k], batch_size, violation_log)
  /\ run2 = Idle
  /\ sanAns = <<>>
  /\ riskAns = <<>>
  /\ transaction_history = <<>>
  /\ last = [op |-> "none"]
  /\ data_sanitizer = NoSanitizer
  /\ violation_log_file = NoFile

BatchStart ==
  /\ run.pc = "batch"
  /\ run.i < Len(run.raw_transactions)
  /\ run' = TakeBatch(run)
  /\ UNCHANGED <<run2, sanAns, riskAns, transaction_history, last, data_sanitizer, violation_log_file>>

SanitizeTx ==
  /\ run.pc = "sanitize"
  /\ run.idx <= Len(run.batch)
  /\ \E structured_response \in Responses(run.batch[run.idx]) :
       \E io \in IOOutcomes(structured_response.violations) :
         run' = SanitizeStep(run, structured_response, io)
  /\ UNCHANGED <<run2, sanAns, riskAns, transaction_history, last, data_sanitizer, violation_log_file>>

ExtendBatch ==
  /\ run.pc = "sanitize"
  /\ run.idx > Len(run.batch)
  /\ run' = ExtendStep(run)
  /\ UNCHANGED <<run2, sanAns, riskAns, transaction_history, last, data_sanitizer, violation_log_file>>

AnalyzeTx ==
  /\ run.pc = "analyze"
  /\ run.idx <= Len(run.sanitized_batch)
  /\ \E answer \in RiskOutcomes : run' = AnalyzeStep(run, answer)
  /\ UNCHANGED <<run2, sanAns, riskAns, transaction_history, last, data_sanitizer, violation_log_file>>

EndBatch ==
  /\ run.pc = "analyze"
  /\ run.idx > Len(run.sanitized_batch)
  /\ run' = EndBatchStep(run)
  /\ UNCHANGED <<run2, sanAns, riskAns, transaction_history, last, data_sanitizer, violation_log_file>>

LoadViolations ==
  /\ run.pc = "batch"
  /\ run.i >= Len(run.raw_transactions)
  /\ \E read_ok \in BOOLEAN : run' = LoadStep(run, read_ok)
  /\ UNCHANGED <<run2, sanAns, riskAns, transaction_history, last, data_sanitizer, violation_log_file>>

GenerateReports ==
  /\ run.pc = "report"
  /\ run' = ReportStep(run)
  /\ UNCHANGED <<run2, sanAns, riskAns, transaction_history, last, data_sanitizer, violation_log_file>>

Next ==
  \/ BatchStart
  \/ SanitizeTx
  \/ ExtendBatch
  \/ AnalyzeTx
  \/ EndBatch
  \/ LoadViolations
  \/ GenerateReports

Spec == Init /\ [][Next]_vars

(***************************************************************************)
(* The second run of SpecBatch and SpecPair: the steps of run_pipeline     *)
(* that ask no collaborator, taken by run2.                                *)
(***************************************************************************)
BatchStart2 ==
  /\ run2.pc = "batch"
  /\ run2.i < Len(run2.raw_transactions)
  /\ run2' = TakeBatch(run2)
  /\ UNCHANGED <<run, sanAns, riskAns, transaction_history, last, data_sanitizer, violation_log_file>>

ExtendBatch2 ==
  /\ run2.pc = "sanitize"
  /\ run2.idx > Len(run2.batch)
  /\ run2' = ExtendStep(run2)
  /\ UNCHANGED <<run, sanAns, riskAns, transaction_history, last, data_sanitizer, violation_log_file>>

EndBatch2 ==
  /\ run2.pc = "analyze"
  /\ run2.idx > Len(run2.sanitized_batch)
  /\ run2' = EndBatchStep(run2)
  /\ UNCHANGED <<run, sanAns, riskAns, transaction_history, last, data_sanitizer, violation_log_file>>

LoadViolations2 ==
  /\ run2.pc = "batch"
  /\ run2.i >= Len(run2.raw_transactions)
  /\ \E read_ok \in BOOLEAN : run2' = LoadStep(run2, read_ok)
  /\ UNCHANGED <<run, sanAns, riskAns, transaction_history, last, data_sanitizer, violation_log_file>>

GenerateReports2 ==
  /\ run2.pc = "report"
  /\ run2' = ReportStep(run2)
  /\ UNCHANGED <<run, sanAns, riskAns, transaction_history, last, data_sanitizer, violation_log_file>>

\* what analyze_risk_with_llm hands to the collaborator for the next
\* transaction of the risk loop: the transaction and its cardholder's history
Question(r) ==
  LET tx == r.sanitized_batch[r.idx]
  IN  [transaction |-> tx,
       history |-> HistoryOf(r.transaction_history, tx.cardholder)]

(***************************************************************************)
(* SpecBatch: run processes one batch of K raw transactions of which one,  *)
(* Dropped, fails sanitization; run2 processes the same batch without it.  *)
(* Both get the same answer from the sanitization collaborator and from    *)
(* the file system for the same raw transaction, and the same answer from  *)
(* the risk collaborator for the same question; riskAns keeps, per         *)
(* question, the answer the risk collaborator gave.                        *)
(***************************************************************************)
Without(seq, k) == LET Keep(x) == x # k IN SelectSeq(seq, Keep)

Dropped == CHOOSE k \in Ids(run.raw_transactions) :
             k \notin Ids(run2.raw_transactions)

InitBatch ==
  /\ \E n \in 1..PairTx, d \in 1..PairTx, violation_log \in InitialLogs :
       /\ d <= n
       /\ run = InitRun([k \in 1..n |-> k], BATCH_SIZE, violation_log)
       /\ run2 = InitRun(Without([k \in 1..n |-> k], d), BATCH_SIZE, violation_log)
  /\ sanAns = <<>>
  /\ riskAns = <<>>
  /\ transaction_history = <<>>
  /\ last = [op |-> "none"]
  /\ data_sanitizer = NoSanitizer
  /\ violation_log_file = NoFile

SanitizeDropped ==
  /\ run.pc = "sanitize"
  /\ run.idx <= Len(run.batch)
  /\ run.batch[run.idx] = Dropped
  /\ \E structured_response \in Responses(Dropped) :
       \E io \in IOOutcomes(structured_response.violations) :
         LET r == SanitizeStep(run, structured_response, io)
         IN  /\ r.stage[Dropped] = "Failed"
             /\ run' = r
  /\ UNCHANGED <<run2, sanAns, riskAns, transaction_history, last, data_sanitizer, violation_log_file>>

SanitizeBoth ==
  /\ run.pc = "sanitize"
  /\ run.idx <= Len(run.batch)
  /\ run2.pc = "sanitize"
  /\ run2.idx <= Len(run2.batch)
  /\ run.batch[run.idx] = run2.batch[run2.idx]
  /\ \E structured_response \in Responses(run.batch[run.idx]) :
       \E io \in IOOutcomes(structured_response.violations) :
         /\ run' = SanitizeStep(run, structured_response, io)
         /\ run2' = SanitizeStep(run2, structured_response, io)
  /\ UNCHANGED <<sanAns, riskAns, transaction_history, last, data_sanitizer, violation_log_file>>

AnalyzeBoth ==
  /\ run.pc = "analyze"
  /\ run.idx <= Len(run.sanitized_batch)
  /\ run2.pc = "analyze"
  /\ run2.idx <= Len(run2.sanitized_batch)
  /\ \E answer \in RiskOutcomes, answer2 \in RiskOutcomes :
       /\ Question(run) = Question(run2) => answer = answer2
       /\ run' = AnalyzeStep(run, answer)
       /\ run2' = AnalyzeStep(run2, answer2)
       /\ riskAns' = (Question(run) :> answer) @@ (Question(run2) :> answer2)
                        @@ riskAns
  /\ UNCHANGED <<sanAns, transaction_history, last, data_sanitizer, violation_log_file>>

NextBatch ==
  \/ BatchStart
  \/ SanitizeDropped
  \/ SanitizeBoth
  \/ ExtendBatch
  \/ AnalyzeBoth
  \/ EndBatch
  \/ LoadViolations
  \/ GenerateReports
  \/ BatchStart2
  \/ ExtendBatch2
  \/ EndBatch2
  \/ LoadViolations2
  \/ GenerateReports2

SpecBatch == InitBatch /\ [][NextBatch]_vars

\* the transactions run r has sanitized so far, in order
Records(r) ==
  IF r.pc = "sanitize"
    THEN r.all_sanitized_transactions \o r.sanitized_batch
    ELSE r.all_sanitized_transactions

HasRecord(r, k) == \E n \in 1..Len(Records(r)) : Records(r)[n].original_log = k

RecordOf(r, k) ==
  Records(r)[CHOOSE n \in 1..Len(Records(r)) : Records(r)[n].original_log = k]

\* C5: when one transaction of a batch fails sanitization, each other
\* transaction has the same sanitized text and the same risk score as in
\* the run of the batch without the failing transaction, and the two runs
\* return the same transaction records.
C5_OthersUnaffected ==
  /\ \A k \in Ids(run2.raw_transactions) :
       (HasRecord(run, k) /\ HasRecord(run2, k)) =>
          LET a == RecordOf(run, k)
              b == RecordOf(run2, k)
          IN  /\ a.sanitized_log = b.sanitized_log
              /\ ("risk_score" \in DOMAIN a /\ "risk_score" \in DOMAIN b)
                   => a.risk_score = b.risk_score
  /\ (run.pc = "done" /\ run2.pc = "done")
       => run.all_sanitized_transactions = run2.all_sanitized_transactions

C5_Witness ==
  /\ run.pc = "done"
  /\ run2.pc = "done"
  /\ run.stage[Dropped] = "Failed"
  /\ run.calls[Dropped] = 1
  /\ Len(run2.all_sanitized_transactions) >= 1
  /\ Dropped < run2.all_sanitized_transactions[1].original_log

\* C13: when the collaborator returned an assessment for a transaction, the
\* transaction's risk_score is set from the table Low -> 1, Medium -> 5,
\* High -> 10 by the label of that assessment (a label outside the table
\* gets the default 1), so every score obtained in assisted mode is one of
\* 1, 5, 10.
C13_ScoreFromLabel ==
  /\ \A q \in DOMAIN riskAns :
       riskAns[q] \in RiskLevels =>
         \E r \in {run, run2} : \E n \in 1..Len(r.all_sanitized_transactions) :
           \E risk_score \in {1, 5, 10} :
             /\ r.all_sanitized_transactions[n] =
                  WithRisk(q.transaction, risk_score, "llm reasoning")
             /\ riskAns[q] = "Low" => risk_score = 1
             /\ riskAns[q] = "Medium" => risk_score = 5
             /\ riskAns[q] = "High" => risk_score = 10
  /\ \A r \in {run, run2} : \A n \in 1..Len(r.all_sanitized_transactions) :
       LET tx == r.all_sanitized_transactions[n]
       IN  ("risk_reasoning" \in DOMAIN tx /\ tx.risk_reasoning = "llm reasoning")
             => /\ tx.risk_score \in {1, 5, 10}
                /\ \E q \in DOMAIN riskAns :
                     /\ riskAns[q] \in RiskLevels
                     /\ tx = WithRisk(q.transaction, tx.risk_score, "llm reasoning")

C13_Witness ==
  /\ run.pc = "done"
  /\ run2.pc = "done"
  /\ \E n \in 1..Len(run.all_sanitized_transactions) :
       /\ run.all_sanitized_transactions[n].risk_score = 10
       /\ run.all_sanitized_transactions[n].risk_reasoning = "llm reasoning"
  /\ \E q \in DOMAIN riskAns : riskAns[q] = "High"

(***************************************************************************)
(* SpecPair: run processes the raw transactions with the source's          *)
(* BATCH_SIZE, then run2 processes the same raw transactions with a        *)
(* smaller batch size.  sanAns keeps, per raw transaction, the answer of   *)
(* the sanitization collaborator and of the file system, riskAns keeps,    *)
(* per question, the answer of the risk collaborator: a question asked     *)
(* again gets the answer it got before.                                    *)
(***************************************************************************)
InitPair ==
  /\ \E n \in 1..PairTx, batch_size \in BatchSizes \ {BATCH_SIZE},
        violation_log \in InitialLogs :
       /\ run = InitRun([k \in 1..n |-> k], BATCH_SIZE, violation_log)
       /\ run2 = InitRun([k \in 1..n |-> k], batch_size, violation_log)
  /\ sanAns = <<>>
  /\ riskAns = <<>>
  /\ transaction_history = <<>>
  /\ last = [op |-> "none"]
  /\ data_sanitizer = NoSanitizer
  /\ violation_log_file = NoFile

SanitizeFirst ==
  /\ run.pc = "sanitize"
  /\ run.idx <= Len(run.batch)
  /\ LET k == run.batch[run.idx]
     IN  \E structured_response \in Responses(k) :
           \E io \in IOOutcomes(structured_response.violations) :
             /\ run' = SanitizeStep(run, structured_response, io)
             /\ sanAns' = (k :> [response |-> structured_response, io |-> io]) @@ sanAns
  /\ UNCHANGED <<run2, riskAns, transaction_history, last, data_sanitizer, violation_log_file>>

AnalyzeFirst ==
  /\ run.pc = "analyze"
  /\ run.idx <= Len(run.sanitized_batch)
  /\ \E answer \in RiskOutcomes :
       /\ run' = AnalyzeStep(run, answer)
       /\ riskAns' = (Question(run) :> answer) @@ riskAns
  /\ UNCHANGED <<run2, sanAns, transaction_history, last, data_sanitizer, violation_log_file>>

SanitizeSecond ==
  /\ Terminated(run)
  /\ run2.pc = "sanitize"
  /\ run2.idx <= Len(run2.batch)
  /\ LET k == run2.batch[run2.idx]
     IN  \E structured_response \in Responses(k) :
           \E io \in IOOutcomes(structured_response.violations) :
             /\ k \in DOMAIN sanAns =>
                  sanAns[k] = [response |-> structured_response, io |-> io]
             /\ run2' = SanitizeStep(run2, structured_response, io)
             /\ sanAns' = (k :> [response |-> structured_response, io |-> io]) @@ sanAns
  /\ UNCHANGED <<run, riskAns, transaction_history, last, data_sanitizer, violation_log_file>>

AnalyzeSecond ==
  /\ Terminated(run)
  /\ run2.pc = "analyze"
  /\ run2.idx <= Len(run2.sanitized_batch)
  /\ \E answer \in RiskOutcomes :
       /\ Question(run2) \in DOMAIN riskAns => riskAns[Question(run2)] = answer
       /\ run2' = AnalyzeStep(run2, answer)
       /\ riskAns' = (Question(run2) :> answer) @@ riskAns
  /\ UNCHANGED <<run, sanAns, transaction_history, last, data_sanitizer, violation_log_file>>

NextPair ==
  \/ BatchStart
  \/ SanitizeFirst
  \/ ExtendBatch
  \/ AnalyzeFirst
  \/ EndBatch
  \/ LoadViolations
  \/ GenerateReports
  \/ BatchStart2
  \/ SanitizeSecond
  \/ ExtendBatch2
  \/ AnalyzeSecond
  \/ EndBatch2
  \/ LoadViolations2
  \/ GenerateReports2

SpecPair == InitPair /\ [][NextPair]_vars

\* C8: batch boundaries have no semantic effect: with the same raw
\* transactions and the same collaborator answers, two runs that differ in
\* the batch size return the same transactions and leave the same ledger
\* file, and the history store is the same when they end.
C8_BatchSizeIrrelevant ==
  /\ (run.pc = "done" /\ run2.pc = "done")
       => run.all_sanitized_transactions = run2.all_sanitized_transactions
  /\ (/\ Terminated(run) /\ run.error # "OSError"
      /\ Terminated(run2) /\ run2.error # "OSError")
       => /\ run.violation_log = run2.violation_log
          /\ run.transaction_history = run2.transaction_history

(***************************************************************************)
(* Properties of one run (Spec).                                           *)
(***************************************************************************)
\* the raw transactions that are in the output list of run r
OutputLogs(r) ==
  [n \in 1..Len(r.all_sanitized_transactions) |->
     r.all_sanitized_transactions[n].original_log]

InOutput(r, k) == \E n \in 1..Len(r.all_sanitized_transactions) :
                    r.all_sanitized_transactions[n].original_log = k

InLedger(r, k) ==
  \/ \E n \in 1..Len(r.violation_log.lines) : r.violation_log.lines[n].src = k
  \/ \E n \in 1..Len(r.all_violations) : r.all_violations[n].src = k

\* C1: no per-transaction failure aborts run_pipeline: whatever the
\* collaborators answer, the run is never left by an error other than a
\* ledger I/O error, and when it returns sanitize_transaction has been
\* called for every raw transaction.
C1_NoAbort ==
  /\ run.pc = "aborted" => run.error = "OSError"
  /\ run.pc = "done" => \A k \in DOMAIN run.calls : run.calls[k] = 1

\* C2: an iteration of the risk loop in which the collaborator gave no
\* assessment (null, or an error) leaves the transaction in the output with
\* the risk_score calculate_risk_score gives for it and a risk_reasoning
\* that starts with "Rule-based fallback".
C2_Fallback ==
  [][(run.pc = "analyze" /\ run.idx <= Len(run.sanitized_batch))
       => LET tx == run.sanitized_batch[run.idx]
              after == run'.all_sanitized_transactions[PositionInAll(run)]
              by_llm == /\ "risk_reasoning" \in DOMAIN after
                        /\ after.risk_reasoning = "llm reasoning"
          IN  ~by_llm =>
                /\ run'.pc # "aborted"
                /\ after.original_log = tx.original_log
                /\ "risk_score" \in DOMAIN after
                /\ after.risk_score =
                     calculate_risk_score(run.transaction_history, tx).score
                /\ after.risk_reasoning \in
                     {"Rule-based fallback", "Rule-based fallback due to error"}]_vars

\* C3: a transaction whose sanitization failed is not in the transaction
\* list, and no violation reported for it is in the ledger or in the
\* violation list.
C3_FailedLeavesNoTrace ==
  \A k \in DOMAIN run.stage :
    run.stage[k] = "Failed" => ~InOutput(run, k) /\ ~InLedger(run, k)

\* C4: when run_pipeline returns, the transaction list holds exactly the
\* transactions whose sanitization succeeded, in the order of the raw
\* transactions, each with a risk_score, and the violation list is the
\* whole content of the ledger file.
C4_ReturnedLists ==
  run.pc = "done" =>
    LET Succeeded(k) == run.stage[k] # "Failed"
    IN  /\ OutputLogs(run) = SelectSeq(run.raw_transactions, Succeeded)
        /\ \A n \in 1..Len(run.all_sanitized_transactions) :
             "risk_score" \in DOMAIN run.all_sanitized_transactions[n]
        /\ run.all_violations = run.violation_log.lines

C4_Witness ==
  /\ run.pc = "done"
  /\ Len(run.all_sanitized_transactions) >= 2
  /\ \E k \in DOMAIN run.stage : run.stage[k] = "Failed"
  /\ Len(run.all_violations) >= 2

\* C6 as claimed: an error while appending to the ledger during the
\* sanitization of a transaction stops the run.
C6_LedgerErrorIsFatal == run.raised # {} => run.pc = "aborted"

\* C6 as amended: an error while appending to the ledger during the
\* sanitization of a transaction is caught: the loop goes on with the next
\* transaction, the transaction itself is dropped and never reaches the
\* output, and the run is not left with an error by it.
C6_LedgerErrorSkipsTx ==
  /\ [](\A k \in run.raised : run.stage[k] = "Failed" /\ ~InOutput(run, k))
  /\ [][run'.raised # run.raised
          => /\ run'.pc = "sanitize"
             /\ run'.idx = run.idx + 1
             /\ run'.sanitized_batch = run.sanitized_batch
             /\ run'.error = ""]_vars

C6_Witness ==
  /\ run.pc = "done"
  /\ \E k \in run.raised : \E m \in DOMAIN run.stage :
       m > k /\ run.stage[m] = "Reported"

\* C7: every raw transaction goes Ingested -> Sanitized -> Scored ->
\* Reported or Ingested -> Failed: it is sanitized at most once, only a
\* sanitized transaction is scored, a failed one is never in the output,
\* and when the run has ended without a ledger I/O error every transaction
\* is Reported or Failed.
C7_Lifecycle ==
  /\ \A k \in DOMAIN run.stage :
       /\ run.calls[k] <= 1
       /\ run.stage[k] = "Failed" => ~InOutput(run, k)
       /\ run.stage[k] \in {"Sanitized", "Scored", "Reported"} => run.calls[k] = 1
  /\ (Terminated(run) /\ run.error # "OSError")
       => \A k \in DOMAIN run.stage : run.stage[k] \in {"Reported", "Failed"}

\* how often the transaction with identifier id stands in the history
\* store of the run's RiskAnalyzer
Occurrences(r, id) ==
  LET RECURSIVE Sum(_)
      Sum(S) == IF S = {} THEN 0
                ELSE LET c == CHOOSE c \in S : TRUE
                         list == r.transaction_history[c]
                     IN  Cardinality({n \in 1..Len(list) : list[n].transaction_id = id})
                           + Sum(S \ {c})
  IN  Sum(DOMAIN r.transaction_history)

\* C23: in every state of run_pipeline, on the path of an assessment, on
\* the path of a null assessment and on the path of an error followed by
\* the second call of calculate_risk_score, no transaction stands more than
\* once in the history store of the risk analyzer.
C23_NoDoubleRegistration ==
  \A id \in 1..NumTx : Occurrences(run, id) <= 1

\* C24: the identifiers run_pipeline assigns are unique and without gaps:
\* the n-th transaction whose sanitization succeeded, in the order of the
\* input, has the identifier txn_n, whatever the batch size and however
\* many transactions were skipped before it.
C24_GapFreeIds ==
  LET records == Records(run)
  IN  /\ \A n \in 1..Len(records) : records[n].transaction_id = n
      /\ \A n, m \in 1..Len(records) :
           n < m => records[n].original_log < records[m].original_log

\* a run in batches of one has skipped its first transaction and given
\* txn_1 and txn_2 to the second and the third
C24_Witness ==
  /\ run.pc = "done"
  /\ run.BATCH_SIZE = 1
  /\ Len(run.raw_transactions) = 3
  /\ run.stage[1] = "Failed"
  /\ Len(run.all_sanitized_transactions) = 2
  /\ run.all_sanitized_transactions[1].original_log = 2
  /\ run.all_sanitized_transactions[1].transaction_id = 1
  /\ run.all_sanitized_transactions[2].original_log = 3
  /\ run.all_sanitized_transactions[2].transaction_id = 2

(***************************************************************************)
(* SpecScore: a RiskAnalyzer on its own, as in the __main__ block of       *)
(* src/agents/risk_analyzer.py: calculate_risk_score is called with        *)
(* transactions whose timestamps are datetimes (minutes 0, 2, 4, 10), in   *)
(* any order, and with the record run_pipeline builds.                     *)
(***************************************************************************)
Times == {0, 2, 4, 10}

AmountCountry ==
  {<<50, "US">>, <<1000, "AU">>, <<1500, "US">>, <<50, "CA">>, <<1500, "CA">>}

ScoreTx(cardholder, amount, country, at) ==
  [cardholder |-> cardholder, amount |-> amount, country |-> country,
   timestamp |-> [kind |-> "dt", at |-> at]]

ScoreTxs ==
  {ScoreTx("X", ac[1], ac[2], at) : ac \in AmountCountry, at \in Times}
    \cup {ScoreTx("Y", 50, "US", 4)}
    \cup {SanitizedTx(Idle, 1, MaskedLog(1))}

HistorySize(history) ==
  LET RECURSIVE Sum(_)
      Sum(S) == IF S = {} THEN 0
                ELSE LET c == CHOOSE c \in S : TRUE
                     IN  Len(history[c]) + Sum(S \ {c})
  IN  Sum(DOMAIN history)

InitScore ==
  /\ transaction_history = <<>>
  /\ last = [op |-> "none"]
  /\ data_sanitizer = NoSanitizer
  /\ violation_log_file = NoFile
  /\ run = Idle
  /\ run2 = Idle
  /\ sanAns = <<>>
  /\ riskAns = <<>>

\* score = rule_analyzer.calculate_risk_score(tx)
CalculateRiskScore ==
  /\ HistorySize(transaction_history) < MaxHist
  /\ \E tx \in ScoreTxs :
       LET c == calculate_risk_score(transaction_history, tx)
       IN  /\ transaction_history' = c.history
           /\ last' = [op |-> "score", transaction |-> tx,
                       raised |-> c.raised, score |-> c.score]
  /\ UNCHANGED <<run, run2, sanAns, riskAns, data_sanitizer, violation_log_file>>

NextScore == CalculateRiskScore

SpecScore == InitScore /\ [][NextScore]_vars

\* the entries of the scored transaction's cardholder, the transaction
\* itself included, as the store holds them after the call
LastList == transaction_history[last.transaction.cardholder]

HighValuePart == IF last.transaction.amount > 1000 THEN 3 ELSE 0

CountryPart == IF last.transaction.country \notin {"US", "AU"} THEN 5 ELSE 0

BurstPart == last.score - HighValuePart - CountryPart

\* C9: a score calculate_risk_score returns is 3*[amount > 1000] +
\* 4*[burst] + 5*[country not in {US, AU}], so one of 0, 3, 4, 5, 7, 8, 9,
\* 12; amount 1500 with country CA and no history scores 8; amount 1000
\* does not add 3 (the case of a call that raises is C11's).
C9_ScoreFormula ==
  (last.op = "score" /\ ~last.raised) =>
     /\ BurstPart \in {0, 4}
     /\ last.score \in {0, 3, 4, 5, 7, 8, 9, 12}
     /\ Len(LastList) < 3 => BurstPart = 0
     /\ (/\ last.transaction.amount = 1500
         /\ last.transaction.country = "CA"
         /\ Len(LastList) = 1) => last.score = 8
     /\ last.transaction.amount = 1000 => last.score \in {0, 4, 5, 9}

C9_Witness ==
  /\ last.op = "score"
  /\ ~last.raised
  /\ last.score = 12

\* C11: calculate_risk_score never fails: every call, for a record with a
\* datetime timestamp and for the record run_pipeline builds (timestamp an
\* ISO string), returns a score and raises no error.
C11_NeverFails == last.op = "score" => ~last.raised

\* C10: the burst rule adds 4 exactly when at least 3 transactions of the
\* cardholder, the current one included, have a timestamp within 5 minutes
\* of the current transaction's timestamp, whatever the order in which the
\* transactions were registered.
C10_BurstWindow ==
  (last.op = "score" /\ ~last.raised) =>
     LET now == last.transaction.timestamp.at
         within == {n \in 1..Len(LastList) :
                      /\ LastList[n].timestamp.at >= now - 5
                      /\ LastList[n].timestamp.at <= now + 5}
     IN  (BurstPart = 4) <=> (Cardinality(within) >= 3)

\* list is the start of longer
IsPrefix(list, longer) ==
  Len(list) <= Len(longer) /\ SubSeq(longer, 1, Len(list)) = list

\* C22: every call of calculate_risk_score, whether it scores 0, scores
\* more or raises, makes the cardholder's list the list it was (empty for a
\* new cardholder) with the current transaction appended at its end, and
\* leaves every other cardholder's list as it was; the burst count is taken
\* on the list that already holds the current transaction; and no step
\* removes or reorders an entry of any list.
C22_AppendBeforeCount ==
  [][
      /\ \A c \in DOMAIN transaction_history :
          /\ c \in DOMAIN transaction_history'
          /\ IsPrefix(transaction_history[c], transaction_history'[c])
      /\ last'.op = "score" =>
           LET tx == last'.transaction
               cardholder == tx.cardholder
               list == transaction_history'[cardholder]
               counted == {n \in 1..Len(list) :
                             tx.timestamp.at - list[n].timestamp.at <= 5}
               burst == last'.score
                          - (IF tx.amount > 1000 THEN 3 ELSE 0)
                          - (IF tx.country \notin {"US", "AU"} THEN 5 ELSE 0)
           IN  /\ DOMAIN transaction_history'
                    = DOMAIN transaction_history \cup {cardholder}
               /\ list = Append(HistoryOf(transaction_history, cardholder), tx)
               /\ \A c \in DOMAIN transaction_history \ {cardholder} :
                    transaction_history'[c] = transaction_history[c]
               /\ ~last'.raised => ((burst = 4) <=> (Cardinality(counted) >= 3))
    ]_vars

\* a call on which no rule triggers has put its transaction at the end of a
\* list that held another entry, next to another cardholder's list
C22_Witness ==
  /\ last.op = "score"
  /\ ~last.raised
  /\ last.score = 0
  /\ Len(LastList) >= 2
  /\ LastList[Len(LastList)] = last.transaction
  /\ LastList[1] # last.transaction
  /\ \E c \in DOMAIN transaction_history :
       c # last.transaction.cardholder /\ Len(transaction_history[c]) >= 1

(***************************************************************************)
(* SpecLlm: a RiskAnalyzer whose history is filled entry by entry and that *)
(* is asked for assisted assessments, as in the second half of the         *)
(* __main__ block of src/agents/risk_analyzer.py.  The analyzer asked is   *)
(* one built with a collaborator or one built without.                     *)
(***************************************************************************)
LlmTxs ==
  {ScoreTx("X", 50, "US", 0), ScoreTx("X", 1500, "CA", 2),
   ScoreTx("Y", 50, "US", 4), SanitizedTx(Idle, 1, MaskedLog(1))}

InitLlm ==
  /\ transaction_history = <<>>
  /\ last = [op |-> "none"]
  /\ data_sanitizer = NoSanitizer
  /\ violation_log_file = NoFile
  /\ run = Idle
  /\ run2 = Idle
  /\ sanAns = <<>>
  /\ riskAns = <<>>

\* llm_analyzer._update_transaction_history(tx)
UpdateHistory ==
  /\ HistorySize(transaction_history) < MaxHist
  /\ \E tx \in LlmTxs :
       transaction_history' = _update_transaction_history(transaction_history, tx)
  /\ last' = [op |-> "update"]
  /\ UNCHANGED <<run, run2, sanAns, riskAns, data_sanitizer, violation_log_file>>

\* risk_assessment = llm_analyzer.analyze_risk_with_llm(high_risk_tx)
AnalyzeRiskWithLlm ==
  /\ \E ollama_client \in BOOLEAN, tx \in LlmTxs, answer \in RiskOutcomes :
       LET a == analyze_risk_with_llm(ollama_client, transaction_history, tx, answer)
       IN  last' = [op |-> "llm", ollama_client |-> ollama_client,
                    transaction |-> tx, answer |-> answer,
                    raised |-> a.raised, value |-> a.value, asked |-> a.asked]
  /\ UNCHANGED <<run, run2, sanAns, riskAns, transaction_history,
                 data_sanitizer, violation_log_file>>

NextLlm ==
  \/ UpdateHistory
  \/ AnalyzeRiskWithLlm

SpecLlm == InitLlm /\ [][NextLlm]_vars

\* C12: analyze_risk_with_llm raises without asking anybody when the
\* analyzer has no collaborator; otherwise it calls the collaborator once,
\* with the transaction and the whole list stored for the transaction's
\* cardholder (the empty list when there is none), and returns what the
\* collaborator returned, null included.
C12_Delegates ==
  last.op = "llm" =>
     LET cardholder == last.transaction.cardholder
     IN  /\ ~last.ollama_client => (last.raised /\ last.asked = <<>>)
         /\ last.ollama_client =>
              /\ Len(last.asked) = 1
              /\ last.asked[1].transaction = last.transaction
              /\ cardholder \in DOMAIN transaction_history
                   => last.asked[1].history = transaction_history[cardholder]
              /\ cardholder \notin DOMAIN transaction_history
                   => last.asked[1].history = <<>>
              /\ last.answer # "raise"
                   => (~last.raised /\ last.value = last.answer)

C12_Witness ==
  /\ last.op = "llm"
  /\ last.ollama_client
  /\ ~last.raised
  /\ last.value = "null"
  /\ Len(last.asked[1].history) >= 2
  /\ Cardinality(DOMAIN transaction_history) >= 2

(***************************************************************************)
(* SpecPattern: the pure operations of DataSanitizer (mask_pan,            *)
(* get_card_type, _sanitize_with_regex) applied to digit runs of           *)
(* MinDigits..MaxDigits digits with every brand prefix, written plain,     *)
(* with dashes and with spaces, alone in a text and two in one text.       *)
(***************************************************************************)
MinDigits == 12

Prefixes ==
  {<<"4">>, <<"5", "1">>, <<"5", "5">>, <<"5", "6">>, <<"3", "4">>, <<"3", "7">>,
   <<"6", "0", "1", "1">>, <<"6", "5">>, <<"2", "1", "3", "1">>,
   <<"1", "8", "0", "0">>, <<"3", "5">>, <<"9">>,
   <<"5", "0">>, <<"3", "6">>, <<"6", "0", "1", "2">>, <<"6", "4">>}

\* n digits that start with prefix; the others tell their position
Pan(prefix, n) ==
  [i \in 1..n |-> IF i <= Len(prefix) THEN prefix[i] ELSE ToString(i % 10)]

\* the digits in groups of four
RECURSIVE Grouped(_, _)
Grouped(d, sep) ==
  IF Len(d) <= 4
    THEN d
    ELSE SubSeq(d, 1, 4) \o <<sep>> \o Grouped(SubSeq(d, 5, Len(d)), sep)

PlainPans == {Pan(p, n) : p \in Prefixes, n \in MinDigits..MaxDigits}

PanInputs ==
  PlainPans \cup {Grouped(d, "-") : d \in PlainPans}
            \cup {Grouped(d, " ") : d \in PlainPans}

\* 4111-1111-1111-1111, the card number of the example log
ExamplePan == Grouped([i \in 1..16 |-> IF i = 1 THEN "4" ELSE "1"], "-")

Visa13 == Pan(<<"4">>, 13)

\* card numbers of which one is part of another
PairPans ==
  {Visa13, Visa13 \o <<"1", "1", "1">>, <<"9">> \o Visa13, ExamplePan,
   Pan(<<"5", "1">>, 16), Pan(<<"9">>, 16), <<"1", "2">>}

\* "... with card <pan> (CVV ..." with the words and the punctuation
\* shortened to one character each
Embedded(pan) == <<"x", " ">> \o pan \o <<",", "x">>

PatternTexts ==
  {Embedded(pan) : pan \in PanInputs \cup {ExamplePan}}
    \cup {a \o <<sep>> \o b : a \in PairPans, b \in PairPans, sep \in {",", " "}}
    \cup {<<"x">> \o Visa13, Visa13 \o <<"x">>, <<"x", "-", "x">>, <<>>}

PatternInputs == PanInputs \cup PatternTexts

\* the argument of the call
InitPattern ==
  /\ last \in {[op |-> "input", text |-> text] : text \in PatternInputs}
  /\ data_sanitizer = DataSanitizer("regex", FALSE).self
  /\ violation_log_file = NoFile
  /\ transaction_history = <<>>
  /\ run = Idle
  /\ run2 = Idle
  /\ sanAns = <<>>
  /\ riskAns = <<>>

MaskPan ==
  /\ last.op = "input"
  /\ last' = [op |-> "mask", pan |-> last.text, value |-> mask_pan(last.text)]
  /\ UNCHANGED <<run, run2, sanAns, riskAns, transaction_history,
                 data_sanitizer, violation_log_file>>

GetCardType ==
  /\ last.op = "input"
  /\ last' = [op |-> "card_type", pan |-> last.text,
              value |-> get_card_type(last.text)]
  /\ UNCHANGED <<run, run2, sanAns, riskAns, transaction_history,
                 data_sanitizer, violation_log_file>>

SanitizeWithRegex ==
  /\ last.op = "input"
  /\ last' = [op |-> "regex", transaction_log |-> last.text,
              pans_found |-> pan_regex_findall(last.text),
              value |-> _sanitize_with_regex(last.text)]
  /\ UNCHANGED <<run, run2, sanAns, riskAns, transaction_history,
                 data_sanitizer, violation_log_file>>

NextPattern ==
  \/ MaskPan
  \/ GetCardType
  \/ SanitizeWithRegex

SpecPattern == InitPattern /\ [][NextPattern]_vars

\* the text in which every match of pan_regex stands as it is when its
\* digits classify as Unknown and is replaced, where it stands, by its
\* masked form when they classify as a brand
RECURSIVE MaskedInPlace(_, _)
MaskedInPlace(text, pos) ==
  IF pos > Len(text)
    THEN <<>>
    ELSE LET end == MatchAt(text, pos)
             pan == SubSeq(text, pos, end - 1)
         IN  IF end = 0
               THEN <<text[pos]>> \o MaskedInPlace(text, pos + 1)
               ELSE (IF get_card_type(pan) = "Unknown" THEN pan ELSE mask_pan(pan))
                      \o MaskedInPlace(text, end)

\* C19: in the text _sanitize_with_regex returns, every match of pan_regex
\* whose digits classify as a brand is replaced by its masked form and
\* every match that classifies as Unknown stands unchanged, the rest of the
\* text being as it was.
C19_CandidatesMasked ==
  last.op = "regex" => last.value = MaskedInPlace(last.transaction_log, 1)

\* C20: mask_pan returns, for an input with 13 to 19 digits, its first six
\* digits, then one '*' for each digit between, then its last four digits;
\* for an input with any other number of digits it returns the input.
C20_MaskPan ==
  last.op = "mask" =>
     LET d == OnlyDigits(last.pan)
         n == Len(d)
     IN  IF n \in 13..19
           THEN /\ Len(last.value) = n
                /\ \A i \in 1..n :
                     last.value[i] = IF i <= 6 \/ i > n - 4 THEN d[i] ELSE "*"
                /\ Cardinality({i \in 1..n : last.value[i] = "*"}) = n - 10
           ELSE last.value = last.pan

C20_Witness ==
  /\ last.op = "mask"
  /\ Len(OnlyDigits(last.pan)) = 19
  /\ Len(last.pan) > 19
  /\ last.value = <<"6", "0", "1", "1", "5", "6">> \o Stars(9) \o <<"6", "7", "8", "9">>

\* the brands of the table whose row the digits d match, a JCB number that
\* starts with 35 having jcb35 digits
BrandsOf(d, jcb35) ==
  LET n == Len(d)
      starts(p) == HasPrefix(d, p)
  IN  {b \in {"Visa", "Mastercard", "Amex", "Discover", "JCB"} :
         \/ b = "Visa" /\ starts(<<"4">>) /\ n \in {13, 16}
         \/ b = "Mastercard" /\ n = 16
              /\ \E k \in 51..55 : starts(<<ToString(k \div 10), ToString(k % 10)>>)
         \/ b = "Amex" /\ n = 15 /\ (starts(<<"3", "4">>) \/ starts(<<"3", "7">>))
         \/ b = "Discover" /\ n = 16
              /\ (starts(<<"6", "0", "1", "1">>) \/ starts(<<"6", "5">>))
         \/ b = "JCB" /\ n = 15
              /\ (starts(<<"2", "1", "3", "1">>) \/ starts(<<"1", "8", "0", "0">>))
         \/ b = "JCB" /\ n = jcb35 /\ starts(<<"3", "5">>)}

\* C21 as stated: get_card_type returns the brand of the row the digits
\* match (Visa 4 with 13 or 16 digits, Mastercard 51-55 with 16, Amex 34 or
\* 37 with 15, Discover 6011 or 65 with 16, JCB 2131, 1800 or 35 with 15)
\* and "Unknown" for every other digit string.
C21_BrandTableAsStated ==
  last.op = "card_type" =>
     LET brands == BrandsOf(OnlyDigits(last.pan), 15)
     IN  IF brands = {} THEN last.value = "Unknown" ELSE last.value \in brands

\* C21: get_card_type returns the brand of the row the digits match, where
\* a JCB number is 2131 or 1800 with 15 digits or 35 with 16 digits and the
\* other rows are as stated, and "Unknown" for every other digit string; no
\* digit string matches two rows.
C21_BrandTable ==
  last.op = "card_type" =>
     LET brands == BrandsOf(OnlyDigits(last.pan), 16)
     IN  /\ Cardinality(brands) <= 1
         /\ IF brands = {} THEN last.value = "Unknown" ELSE last.value \in brands

C21_Witness ==
  /\ last.op = "card_type"
  /\ last.pan = Pan(<<"3", "5">>, 16)
  /\ last.value = "JCB"

(***************************************************************************)
(* SpecSanitizer: DataSanitizer objects are constructed in either mode,    *)
(* with or without a collaborator, and sanitize_transaction is called on   *)
(* the object that exists; the violation log file is read as run_pipeline  *)
(* reads it.  The collaborator's violations are records with the keys of   *)
(* the system prompt; confidence_score is in hundredths.                   *)
(***************************************************************************)
CollaboratorViolations ==
  {[transaction_id |-> "N/A", violation_type |-> "Full PAN stored",
    confidence_score |-> 95],
   [transaction_id |-> "N/A", violation_type |-> "", confidence_score |-> 100],
   [transaction_id |-> "N/A", violation_type |-> "CVV in log",
    confidence_score |-> 150]}

ViolationLists == UNION {[1..c -> CollaboratorViolations] : c \in 0..MaxViol}

SanitizerChats == ChatOutcomes({"masked", "", None}, ViolationLists)

\* a log with a Visa number, one with a number of no brand, one with none
SanitizerTexts == {Embedded(ExamplePan), Embedded(Pan(<<"9">>, 16)), <<"x">>}

InitSanitizer ==
  /\ data_sanitizer = NoSanitizer
  /\ violation_log_file \in
       {NoFile,
        [exists |-> TRUE,
         lines |-> <<[transaction_id |-> "N/A", violation_type |-> "Full PAN stored",
                      confidence_score |-> 95]>>]}
  /\ last = [op |-> "none"]
  /\ transaction_history = <<>>
  /\ run = Idle
  /\ run2 = Idle
  /\ sanAns = <<>>
  /\ riskAns = <<>>

\* data_sanitizer = DataSanitizer(mode=..., ollama_client=...): the name is
\* bound only when the constructor returns
Construct ==
  /\ \E mode \in Modes, ollama_client \in BOOLEAN :
       LET c == DataSanitizer(mode, ollama_client)
       IN  /\ data_sanitizer' = IF c.raised THEN data_sanitizer ELSE c.self
           /\ last' = [op |-> "construct", mode |-> mode,
                       ollama_client |-> ollama_client, raised |-> c.raised]
  /\ UNCHANGED <<run, run2, sanAns, riskAns, transaction_history, violation_log_file>>

\* data_sanitizer.sanitize_transaction(tx_log) on an object in 'ollama' mode;
\* the log is the example log, what comes back is the collaborator's choice
SanitizeAssisted ==
  /\ data_sanitizer.exists
  /\ data_sanitizer.mode = "ollama"
  /\ Len(violation_log_file.lines) < MaxLedger
  /\ \E transaction_log \in {Embedded(ExamplePan)}, chat \in SanitizerChats :
       \E io \in IOOutcomes(process_transaction(chat).violations) :
         LET res == DataSanitizer_sanitize_transaction(
                      data_sanitizer, violation_log_file, transaction_log, chat, io)
         IN  /\ violation_log_file' = res.violation_log
             /\ last' = [op |-> "sanitize", mode |-> data_sanitizer.mode,
                         transaction_log |-> transaction_log, chat |-> chat,
                         raised |-> res.raised, value |-> res.value,
                         asked |-> res.asked]
  /\ UNCHANGED <<run, run2, sanAns, riskAns, transaction_history, data_sanitizer>>

\* data_sanitizer.sanitize_transaction(tx_log) on an object in regex mode:
\* no collaborator is there to answer and no file operation to fail
SanitizeRegex ==
  /\ data_sanitizer.exists
  /\ data_sanitizer.mode # "ollama"
  /\ \E transaction_log \in SanitizerTexts :
       LET chat == [kind |-> "error", sanitized_log |-> "", violations |-> <<>>]
           io == [kind |-> "ok", written |-> 0]
           res == DataSanitizer_sanitize_transaction(
                    data_sanitizer, violation_log_file, transaction_log, chat, io)
       IN  /\ violation_log_file' = res.violation_log
           /\ last' = [op |-> "sanitize", mode |-> data_sanitizer.mode,
                       transaction_log |-> transaction_log,
                       raised |-> res.raised, value |-> res.value,
                       asked |-> res.asked]
  /\ UNCHANGED <<run, run2, sanAns, riskAns, transaction_history, data_sanitizer>>

\* all_violations = [json.loads(line) for line in f]
LoadAll ==
  /\ violation_log_file.exists
  /\ \E read_ok \in BOOLEAN :
       last' = [op |-> "load", raised |-> ~read_ok,
                value |-> IF read_ok THEN violation_log_file.lines ELSE <<>>]
  /\ UNCHANGED <<run, run2, sanAns, riskAns, transaction_history,
                 data_sanitizer, violation_log_file>>

NextSanitizer ==
  \/ Construct
  \/ SanitizeAssisted
  \/ SanitizeRegex
  \/ LoadAll

SpecSanitizer == InitSanitizer /\ [][NextSanitizer]_vars

\* C14: constructing a DataSanitizer in 'ollama' mode without a
\* collaborator fails, so an object in 'ollama' mode always has one and
\* sanitize_transaction never runs in that mode without it; constructing
\* one in regex mode succeeds without a collaborator.
C14_FailFast ==
  /\ (data_sanitizer.exists /\ data_sanitizer.mode = "ollama")
       => data_sanitizer.ollama_client
  /\ last.op = "construct"
       => /\ last.raised <=> (last.mode = "ollama" /\ ~last.ollama_client)
          /\ ~last.raised
               => data_sanitizer = [exists |-> TRUE, mode |-> last.mode,
                                    ollama_client |-> last.ollama_client]
  /\ (last.op = "sanitize" /\ last.mode = "ollama")
       => data_sanitizer.ollama_client

C14_Witness ==
  /\ last.op = "construct"
  /\ last.mode = "ollama"
  /\ last.raised
  /\ data_sanitizer.exists
  /\ data_sanitizer.mode = "regex"
  /\ ~data_sanitizer.ollama_client

\* C15: in 'ollama' mode, a call in which the collaborator failed (an
\* error of the chat, or a reply that cannot be parsed) returns None and
\* never the empty string; the empty string is returned only for a parsed
\* reply whose sanitized text is empty.
C15_NullOnFailure ==
  (last.op = "sanitize" /\ last.mode = "ollama" /\ ~last.raised) =>
     /\ last.chat.kind \in {"error", "bad_json", "text"} => last.value = None
     /\ last.value = ""
          => (last.chat.kind \in {"fenced", "json"} /\ last.chat.sanitized_log = "")

\* C16: the violation log file is append-only: a call of
\* sanitize_transaction in 'ollama' mode that returns appends exactly the
\* list of violations the collaborator returned, in order, one record per
\* violation, duplicates included; a call that raises appends a part of
\* it; no step changes or removes a record that is in the file; and
\* loading the file gives its records in the order they were appended.
C16_AppendOnly ==
  [][/\ Len(violation_log_file'.lines) >= Len(violation_log_file.lines)
     /\ SubSeq(violation_log_file'.lines, 1, Len(violation_log_file.lines))
          = violation_log_file.lines
     /\ (last'.op = "sanitize" /\ last'.mode = "ollama")
          => LET returned == process_transaction(last'.chat).violations
                 appended == SubSeq(violation_log_file'.lines,
                                    Len(violation_log_file.lines) + 1,
                                    Len(violation_log_file'.lines))
             IN  IF last'.raised
                   THEN \E j \in 0..Len(returned) : appended = SubSeq(returned, 1, j)
                   ELSE appended = returned
     /\ (last'.op = "load" /\ ~last'.raised)
          => last'.value = violation_log_file.lines]_vars

C16_Witness ==
  /\ last.op = "load"
  /\ ~last.raised
  /\ Len(last.value) = 2
  /\ last.value[1] = last.value[2]
  /\ last.value = violation_log_file.lines

\* C17: every record in the violation log file has a violation kind that
\* is not empty and a confidence score between 0.0 and 1.0.
C17_WellFormedRecords ==
  \A n \in 1..Len(violation_log_file.lines) :
    LET v == violation_log_file.lines[n]
    IN  /\ v.violation_type # ""
        /\ v.confidence_score \in 0..100

\* C18: a call of sanitize_transaction on an object in regex mode leaves
\* the violation log file as it is and makes no call to the collaborator,
\* whether it masks a card number or not.
C18_RegexFrame ==
  [][(last'.op = "sanitize" /\ last'.mode # "ollama")
       => /\ violation_log_file' = violation_log_file
          /\ last'.asked = <<>>
          /\ ~last'.raised]_vars

C18_Witness ==
  /\ last.op = "sanitize"
  /\ last.mode = "regex"
  /\ last.value # last.transaction_log
  /\ last.asked = <<>>
  /\ Len(violation_log_file.lines) >= 1

(***************************************************************************)
(* SpecReport: a ComplianceReporter as run_pipeline leaves it before stage *)
(* 3: its transactions are the records of this run, each with its          *)
(* risk_score, and its violations are the lines of the violation log file, *)
(* which holds what the collaborator put into its answers in this run and  *)
(* in earlier ones, as it came.  compliance_percentage is in hundredths of *)
(* a percent.                                                              *)
(***************************************************************************)
\* lines the file can hold: the record of the system prompt's example, a
\* record whose transaction_id the collaborator filled in, a record left by
\* an earlier run, a record the collaborator wrote without transaction_id
LedgerRecords ==
  {[transaction_id |-> "N/A", violation_type |-> "Full PAN stored"],
   [transaction_id |-> "txn_1", violation_type |-> "CVV in log"],
   [transaction_id |-> "txn_7", violation_type |-> "Full PAN stored"],
   [violation_type |-> "CVV in log"]}

Ledgers == UNION {[1..c -> LedgerRecords] : c \in 0..MaxLedger}

\* all_sanitized_transactions at the end of the risk loop
ReportedTransactions ==
  UNION {{[n \in 1..c |-> [transaction_id |-> n, risk_score |-> score[n]]] :
            score \in [1..c -> {1, 5, 10}]} : c \in 0..NumTx}

ComplianceReporter(transactions, violations) ==
  [transactions |-> transactions, violations |-> violations]

\* returns [raised, ...]: v['transaction_id'] raises KeyError for a record
\* without that key, and is evaluated only when there are transactions
generate_daily_summary(self) ==
  LET total_transactions == Len(self.transactions)
      total_violations == Len(self.violations)
      risk_score(tx) == IF "risk_score" \in DOMAIN tx THEN tx.risk_score ELSE 0
      high_risk_transactions ==
        {n \in 1..total_transactions : risk_score(self.transactions[n]) > 5}
      ids == {self.violations[n].transaction_id :
                n \in {m \in 1..total_violations :
                         "transaction_id" \in DOMAIN self.violations[m]}}
      compliant_transactions == total_transactions - Cardinality(ids)
      \* (compliant_transactions / total_transactions) * 100 as :.2f prints it
      percentage ==
        (20000 * compliant_transactions + total_transactions)
          \div (2 * total_transactions)
  IN  IF /\ total_transactions > 0
         /\ \E n \in 1..total_violations :
              "transaction_id" \notin DOMAIN self.violations[n]
        THEN [raised |-> TRUE]
        ELSE [raised |-> FALSE,
              total_transactions_processed |-> total_transactions,
              total_violations_found |-> total_violations,
              high_risk_transactions_detected |-> Cardinality(high_risk_transactions),
              compliant_transactions |->
                IF total_transactions > 0 THEN compliant_transactions ELSE None,
              compliance_percentage |->
                IF total_transactions > 0 THEN percentage ELSE 0]

\* compliance_reporter.transactions and .violations as set at the end of
\* stage 2
InitReport ==
  /\ last \in {[op |-> "reporter",
                self |-> ComplianceReporter(transactions, violations)] :
                 transactions \in ReportedTransactions, violations \in Ledgers}
  /\ data_sanitizer = NoSanitizer
  /\ violation_log_file = NoFile
  /\ transaction_history = <<>>
  /\ run = Idle
  /\ run2 = Idle
  /\ sanAns = <<>>
  /\ riskAns = <<>>

\* summary_report = compliance_reporter.generate_daily_summary()
GenerateDailySummary ==
  /\ last.op = "reporter"
  /\ last' = [op |-> "summary", self |-> last.self,
              summary |-> generate_daily_summary(last.self)]
  /\ UNCHANGED <<run, run2, sanAns, riskAns, transaction_history,
                 data_sanitizer, violation_log_file>>

NextReport == GenerateDailySummary

SpecReport == InitReport /\ [][NextReport]_vars

\* C25: generate_daily_summary returns a summary in which the number of
\* compliant transactions (the total minus the number of distinct
\* transaction ids among the violations) is between 0 and the total and
\* the compliance percentage is between 0 and 100, for every content of the
\* violation log file, records of earlier runs and records with the id
\* "N/A" included.
C25_PercentageInRange ==
  last.op = "summary" =>
     /\ ~last.summary.raised
     /\ last.summary.compliance_percentage \in 0..10000
     /\ last.summary.total_transactions_processed > 0 =>
          last.summary.compliant_transactions
            \in 0..last.summary.total_transactions_processed

====
